---- MODULE Spec2Model ----
(***************************************************************************)
(* Model of "Centratore Oggetti": the App component (four input strings,   *)
(* the text result, the layout result and the error) and its               *)
(* calculatePositions handler, the Visualization component it mounts (the  *)
(* view transform with its wheel, mouse and touch gestures, in both        *)
(* sources of the component) and the PDF export of src/unnamed/part_000.   *)
(*                                                                         *)
(* Numbers are exact rationals <<numerator, denominator>> in lowest terms  *)
(* with a positive denominator; NaN is <<0, 0>>.  An input string is       *)
(* either the empty string <<>> or a decimal literal <<h>> that denotes    *)
(* h/2 ("0.5" steps: <<3>> is "1.5", <<-1>> is "-0.5").                    *)
(***************************************************************************)
EXTENDS Integers, Sequences, FiniteSets, TLC

\* Largest literals (in halves) the form fields are driven with.
MaxWallH  == 8
MaxCountH == 8
MaxObjH   == 4
MaxSpaceH == 4

\* ------------------------------------------------------------------------
\* Rational arithmetic
\* ------------------------------------------------------------------------
Abs(x) == IF x < 0 THEN -x ELSE x

RECURSIVE GCD(_, _)
GCD(a, b) == IF b = 0 THEN a ELSE GCD(b, a % b)

NaN == <<0, 0>>

\* n/d in lowest terms; anything over 0 (so anything computed from NaN) is NaN.
Norm(n, d) ==
  IF d = 0 THEN NaN
  ELSE LET s == IF d < 0 THEN -1 ELSE 1
           g == GCD(Abs(n), Abs(d))
       IN  <<(s * n) \div g, (s * d) \div g>>

Whole(n) == <<n, 1>>
Zero == Whole(0)

RAdd(a, b) == Norm(a[1] * b[2] + b[1] * a[2], a[2] * b[2])
RSub(a, b) == Norm(a[1] * b[2] - b[1] * a[2], a[2] * b[2])
RMul(a, b) == Norm(a[1] * b[1], a[2] * b[2])
RDiv(a, b) == Norm(a[1] * b[2], a[2] * b[1])
\* < and <= of the language: false as soon as one side is NaN.
RLt(a, b)  == a # NaN /\ b # NaN /\ a[1] * b[2] < b[1] * a[2]
RLe(a, b)  == a # NaN /\ b # NaN /\ a[1] * b[2] <= b[1] * a[2]
IsInteger(a) == a[2] = 1

\* ------------------------------------------------------------------------
\* Parsing and formatting
\* ------------------------------------------------------------------------
EmptyString == <<>>
Literal(h) == <<h>>

isNaN(x) == x = NaN

\* parseFloat: the empty string gives NaN, a literal gives its value.
parseFloat(s) == IF s = EmptyString THEN NaN ELSE Norm(s[1], 2)

\* parseInt(s, 10): reads the digits before the decimal point only, so the
\* value is truncated toward zero ("2.5" -> 2, "-0.5" -> 0).
parseInt(s) ==
  IF s = EmptyString THEN NaN
  ELSE IF s[1] >= 0 THEN Whole(s[1] \div 2) ELSE Whole(-((-s[1]) \div 2))

\* parseFloat(desiredSpacing) || 0 : NaN and 0 are falsy.
OrZero(x) == IF isNaN(x) \/ x = Zero THEN Zero ELSE x

\* formatNumber: an integer prints as itself, anything else with exactly one
\* decimal (toFixed(1): nearest tenth, ties away from zero).
formatNumber(num) ==
  IF IsInteger(num) THEN [kind |-> "integer", value |-> num[1]]
  ELSE LET mag == (20 * Abs(num[1]) + num[2]) \div (2 * num[2])
       IN  [kind |-> "fixed1", value |-> IF num[1] < 0 THEN -mag ELSE mag]

\* ------------------------------------------------------------------------
\* Messages and absent values
\* ------------------------------------------------------------------------
null == "null"
NoResults == [kind |-> "null"]
NoVisualData == [mode |-> "null"]

ErrInvalidInput      == "Tutti i campi numerici devono essere validi."
ErrNonPositiveWall   == "La larghezza del muro deve essere maggiore di zero."
ErrNonPositiveObject == "La larghezza dell'oggetto deve essere maggiore di zero."
ErrTooFewObjects     == "Il numero di oggetti deve essere almeno 1."
ErrNegativeSpacing   == "La spaziatura desiderata non puo' essere negativa."
ErrObjectsExceedWall ==
  "La larghezza totale degli oggetti non puo' superare la larghezza del muro."
ErrExportNotFound == "Errore durante l'esportazione: elementi non trovati."
ErrExportFailed ==
  "Si e' verificato un errore durante la creazione del PDF."
ErrSpacingExceedsWall ==
  "La larghezza totale degli oggetti e degli spazi desiderati supera la larghezza del muro."

\* ------------------------------------------------------------------------
\* calculatePositions: validation
\* ------------------------------------------------------------------------
\* Variant: the object count is tested before the wall width.
EarlyChecksCountFirst(wallW, numObj, objW, space) ==
  IF isNaN(wallW) \/ isNaN(numObj) \/ isNaN(objW) THEN ErrInvalidInput
  ELSE IF RLt(numObj, Whole(1)) THEN ErrTooFewObjects
  ELSE IF RLe(wallW, Zero) THEN ErrNonPositiveWall
  ELSE IF RLe(objW, Zero) THEN ErrNonPositiveObject
  ELSE IF RLt(space, Zero) THEN ErrNegativeSpacing
  ELSE IF RLt(wallW, RMul(numObj, objW)) THEN ErrObjectsExceedWall
  ELSE null

\* Variant: objects that fill the wall exactly are rejected (>= for >).
EarlyChecksStrictFit(wallW, numObj, objW, space) ==
  IF isNaN(wallW) \/ isNaN(numObj) \/ isNaN(objW) THEN ErrInvalidInput
  ELSE IF RLe(wallW, Zero) THEN ErrNonPositiveWall
  ELSE IF RLe(objW, Zero) THEN ErrNonPositiveObject
  ELSE IF RLt(numObj, Whole(1)) THEN ErrTooFewObjects
  ELSE IF RLt(space, Zero) THEN ErrNegativeSpacing
  ELSE IF RLe(wallW, RMul(numObj, objW)) THEN ErrObjectsExceedWall
  ELSE null

\* The checks made before any layout is computed, in the order of the code;
\* the result is the message of the first failing check, or null.
EarlyChecks(wallW, numObj, objW, space) ==
  IF isNaN(wallW) \/ isNaN(numObj) \/ isNaN(objW) THEN ErrInvalidInput
  ELSE IF RLe(wallW, Zero) THEN ErrNonPositiveWall
  ELSE IF RLe(objW, Zero) THEN ErrNonPositiveObject
  ELSE IF RLt(numObj, Whole(1)) THEN ErrTooFewObjects
  ELSE IF RLt(space, Zero) THEN ErrNegativeSpacing
  ELSE IF RLt(wallW, RMul(numObj, objW)) THEN ErrObjectsExceedWall
  ELSE null

\* space > 0 && numObj > 1
UseDesiredSpacing(numObj, space) == RLt(Zero, space) /\ RLt(Whole(1), numObj)

\* Variant: one inner gap per object instead of one per pair of neighbours.
totalOccupiedWidthGapPerObject(numObj, objW, space) ==
  RAdd(RMul(numObj, objW), RMul(numObj, space))

totalOccupiedWidth(numObj, objW, space) ==
  RAdd(RMul(numObj, objW), RMul(RSub(numObj, Whole(1)), space))

\* Variant: only the inner gaps are compared with the wall.
SpacingExceedsWallGapsOnly(wallW, numObj, objW, space) ==
  RLt(wallW, RMul(RSub(numObj, Whole(1)), space))

\* totalOccupiedWidth > wallW
SpacingExceedsWall(wallW, numObj, objW, space) ==
  RLt(wallW, totalOccupiedWidth(numObj, objW, space))

\* ------------------------------------------------------------------------
\* calculatePositions: placement
\* ------------------------------------------------------------------------
\* One iteration of either placement loop: the object pushed at currentPos
\* and the three values printed for it.
VisualObject(startPos, objW) == [start |-> startPos, width |-> objW]

ObjectLines(startPos, objW) ==
  [inizio |-> formatNumber(startPos),
   centro |-> formatNumber(RAdd(startPos, RDiv(objW, Whole(2)))),
   fine   |-> formatNumber(RAdd(startPos, objW))]

\* currentPos = objEnd + gap
NextPos(startPos, objW, gap) == RAdd(RAdd(startPos, objW), gap)

\* Variant: the loop stops one object early (i < numObj - 1).
RECURSIVE PlaceObjectsShort(_, _, _, _, _, _)
PlaceObjectsShort(i, numObj, currentPos, objW, gap, pushed) ==
  IF i >= numObj - 1 THEN pushed
  ELSE PlaceObjectsShort(i + 1, numObj, NextPos(currentPos, objW, gap), objW,
                         gap, Append(pushed, VisualObject(currentPos, objW)))

\* for (let i = 0; i < numObj; i++) { ... }, with the objects pushed so far.
RECURSIVE PlaceObjects(_, _, _, _, _, _)
PlaceObjects(i, numObj, currentPos, objW, gap, pushed) ==
  IF i >= numObj THEN pushed
  ELSE PlaceObjects(i + 1, numObj, NextPos(currentPos, objW, gap), objW, gap,
                    Append(pushed, VisualObject(currentPos, objW)))

RECURSIVE PrintObjects(_, _, _, _, _, _)
PrintObjects(i, numObj, currentPos, objW, gap, printed) ==
  IF i >= numObj THEN printed
  ELSE PrintObjects(i + 1, numObj, NextPos(currentPos, objW, gap), objW, gap,
                    Append(printed, ObjectLines(currentPos, objW)))

Outcome(err, res, vis) == [error |-> err, results |-> res, visualData |-> vis]
Failure(err) == Outcome(err, NoResults, NoVisualData)

\* Variant: the side gap forgets the inner gaps.
sideGapOfObjectsOnly(wallW, numObj, objW, space) ==
  RDiv(RSub(wallW, RMul(numObj, objW)), Whole(2))

\* Branch "space > 0 && numObj > 1" once the spacing check has passed.
sideGapOf(wallW, numObj, objW, space) ==
  RDiv(RSub(wallW, totalOccupiedWidth(numObj, objW, space)), Whole(2))

DesiredLayout(wallW, numObj, objW, space) ==
  LET sideGap == sideGapOf(wallW, numObj, objW, space)
  IN  Outcome(null,
        [kind    |-> "desired",
         header  |-> <<formatNumber(sideGap), formatNumber(space)>>,
         objects |-> PrintObjects(0, numObj[1], sideGap, objW, space, <<>>)],
        [wallWidth |-> wallW,
         objects   |-> PlaceObjects(0, numObj[1], sideGap, objW, space, <<>>),
         mode      |-> "desired",
         sideGap   |-> sideGap,
         innerGap  |-> space])

\* Variant: the free space is not halved.
SingleStartNotHalved(wallW, objW) == RSub(wallW, objW)

\* Branch "numObj === 1".
SingleStart(wallW, objW) == RDiv(RSub(wallW, objW), Whole(2))

SingleLayout(wallW, objW) ==
  LET startPos == SingleStart(wallW, objW)
      sideGapSingle == RDiv(RSub(wallW, objW), Whole(2))
  IN  Outcome(null,
        [kind    |-> "single",
         header  |-> <<>>,
         objects |-> <<ObjectLines(startPos, objW)>>],
        [wallWidth |-> wallW,
         objects   |-> <<VisualObject(startPos, objW)>>,
         mode      |-> "desired",
         sideGap   |-> sideGapSingle,
         innerGap  |-> Zero])

\* Variant: only the gaps between objects are counted (numObj - 1).
gapSizeOfInnerOnly(wallW, numObj, objW) ==
  RDiv(RSub(wallW, RMul(numObj, objW)), RSub(numObj, Whole(1)))

\* Variant: the objects' widths are not taken off the wall's width.
gapSizeOfWallOnly(wallW, numObj, objW) ==
  RDiv(wallW, RAdd(numObj, Whole(1)))

\* Last branch: uniform spacing.
gapSizeOf(wallW, numObj, objW) ==
  RDiv(RSub(wallW, RMul(numObj, objW)), RAdd(numObj, Whole(1)))

UniformLayout(wallW, numObj, objW) ==
  LET gapSize == gapSizeOf(wallW, numObj, objW)
  IN  Outcome(null,
        [kind    |-> "uniform",
         header  |-> <<formatNumber(gapSize)>>,
         objects |-> PrintObjects(0, numObj[1], gapSize, objW, gapSize, <<>>)],
        [wallWidth |-> wallW,
         objects   |-> PlaceObjects(0, numObj[1], gapSize, objW, gapSize, <<>>),
         mode      |-> "uniform",
         gapSize   |-> gapSize])

\* Variant: no branch of its own for a single object.
PlacementNoSingle(wallW, numObj, objW, space) ==
  IF UseDesiredSpacing(numObj, space)
  THEN IF SpacingExceedsWall(wallW, numObj, objW, space)
       THEN Failure(ErrSpacingExceedsWall)
       ELSE DesiredLayout(wallW, numObj, objW, space)
  ELSE UniformLayout(wallW, numObj, objW)

\* Which of the three placement branches a validated request takes.
Placement(wallW, numObj, objW, space) ==
  IF UseDesiredSpacing(numObj, space)
  THEN IF SpacingExceedsWall(wallW, numObj, objW, space)
       THEN Failure(ErrSpacingExceedsWall)
       ELSE DesiredLayout(wallW, numObj, objW, space)
  ELSE IF numObj = Whole(1)
       THEN SingleLayout(wallW, objW)
       ELSE UniformLayout(wallW, numObj, objW)

\* The whole computation of calculatePositions on the parsed inputs.
Compute(wallW, numObj, objW, space) ==
  IF EarlyChecks(wallW, numObj, objW, space) # null
  THEN Failure(EarlyChecks(wallW, numObj, objW, space))
  ELSE Placement(wallW, numObj, objW, space)

\* ------------------------------------------------------------------------
\* The App component
\* ------------------------------------------------------------------------
VARIABLES
  wallWidth,       \* input string
  numObjects,      \* input string
  objectWidth,     \* input string
  desiredSpacing,  \* input string
  results,         \* text result or NoResults
  visualData,      \* layout result or NoVisualData
  error,           \* message or null
  request,         \* the latest calculatePositions call: its four parsed
                   \* inputs and what was on screen when it started
  isExporting,     \* useState(false) of src/unnamed/part_000: an export
                   \* is awaiting the rasterization
  \* The Visualization component mounted while visualData is present
  build,                 \* which of the two sources of the component runs
  containerWidth,        \* useState(0)
  transform,             \* useState({scale, translateX, translateY})
  isPanning,             \* useState(false)
  startPanPoint,         \* startPanPointRef.current
  startTransform,        \* startTransformRef.current
  initialPinchDistance,  \* initialPinchDistanceRef.current
  contacts,              \* e.touches.length of the latest touch event: the
                         \* touches resting on the svg
  events,                \* number of events of the component handled so far
  lastEvent,             \* kind of the latest event of the component
  gesture                \* the gesture in progress as the user sees it: how
                         \* and where it started and what happened since

appVars == <<wallWidth, numObjects, objectWidth, desiredSpacing,
             results, visualData, error, request, isExporting>>

viewVars == <<build, containerWidth, transform, isPanning, startPanPoint,
              startTransform, initialPinchDistance, contacts, events,
              lastEvent,
              gesture>>

vars == <<appVars, viewVars>>

\* src/Visualization.tsx handles mouse and touch; src/unnamed/part_001 is the
\* mouse-only source of the same component.
BuildTouch == "Visualization.tsx"
BuildMouse == "part_001"

IdentityTransform == [scale |-> Whole(1), translateX |-> Zero, translateY |-> Zero]
Origin == [x |-> Zero, y |-> Zero]
NoEvent == "none"
NoGesture ==
  [kind |-> "none", point |-> Origin, at |-> IdentityTransform,
   last |-> Origin, moves |-> 0, pure |-> TRUE, fromPan |-> FALSE,
   distance |-> Zero]

\* The state of a freshly mounted Visualization.
ViewMounted(b) ==
  /\ build = b
  /\ containerWidth = Zero
  /\ transform = IdentityTransform
  /\ isPanning = FALSE
  /\ startPanPoint = Origin
  /\ startTransform = IdentityTransform
  /\ initialPinchDistance = Zero
  /\ contacts = 0
  /\ events = 0
  /\ lastEvent = NoEvent
  /\ gesture = NoGesture

\* {visualData && <Visualization data={visualData} />}: the component keeps
\* its state while a layout result is shown and loses it when none is.
Remount(shown) ==
  IF shown
  THEN UNCHANGED viewVars
  ELSE /\ containerWidth' = Zero
       /\ transform' = IdentityTransform
       /\ isPanning' = FALSE
       /\ startPanPoint' = Origin
       /\ startTransform' = IdentityTransform
       /\ initialPinchDistance' = Zero
       /\ contacts' = 0
       /\ gesture' = NoGesture
       /\ UNCHANGED <<build, events, lastEvent>>

inputs == <<wallWidth, numObjects, objectWidth, desiredSpacing>>

NoRequest == [called |-> FALSE]

\* useState('300'), useState('3'), useState('10.0'), useState('')
InitialWallWidth   == Literal(600)
InitialNumObjects  == Literal(6)
InitialObjectWidth == Literal(20)

WallStrings  == {EmptyString, InitialWallWidth}
                  \cup {Literal(h) : h \in -1..MaxWallH}
CountStrings == {EmptyString, InitialNumObjects}
                  \cup {Literal(h) : h \in -1..MaxCountH}
ObjStrings   == {EmptyString, InitialObjectWidth}
                  \cup {Literal(h) : h \in -1..MaxObjH}
SpaceStrings == {EmptyString} \cup {Literal(h) : h \in -1..MaxSpaceH}

\* The literals typed into the fields in the interactive specification.
TypedWall  == {EmptyString, InitialWallWidth, Literal(-1), Literal(MaxWallH)}
TypedCount == {EmptyString, InitialNumObjects, Literal(1), Literal(2),
               Literal(MaxCountH)}
TypedObj   == {EmptyString, InitialObjectWidth, Literal(0), Literal(MaxObjH)}
TypedSpace == {EmptyString, Literal(-1), Literal(MaxSpaceH)}

Init ==
  /\ wallWidth = InitialWallWidth
  /\ numObjects = InitialNumObjects
  /\ objectWidth = InitialObjectWidth
  /\ desiredSpacing = EmptyString
  /\ results = NoResults
  /\ visualData = NoVisualData
  /\ error = null
  /\ request = NoRequest
  /\ isExporting = FALSE
  /\ ViewMounted(BuildTouch)

\* onChange handlers of the four form fields.
setWallWidth ==
  /\ \E v \in TypedWall : wallWidth' = v
  /\ UNCHANGED <<numObjects, objectWidth, desiredSpacing,
                 results, visualData, error, request, isExporting,
                 viewVars>>

setNumObjects ==
  /\ \E v \in TypedCount : numObjects' = v
  /\ UNCHANGED <<wallWidth, objectWidth, desiredSpacing,
                 results, visualData, error, request, isExporting,
                 viewVars>>

setObjectWidth ==
  /\ \E v \in TypedObj : objectWidth' = v
  /\ UNCHANGED <<wallWidth, numObjects, desiredSpacing,
                 results, visualData, error, request, isExporting,
                 viewVars>>

setDesiredSpacing ==
  /\ \E v \in TypedSpace : desiredSpacing' = v
  /\ UNCHANGED <<wallWidth, numObjects, objectWidth,
                 results, visualData, error, request, isExporting,
                 viewVars>>

\* The parsed inputs of a call (the handler's four constants).
Parsed ==
  [called |-> TRUE,
   shown  |-> [error |-> error # null, results |-> results # NoResults,
               visualData |-> visualData # NoVisualData],
   wallW  |-> parseFloat(wallWidth),
   numObj |-> parseInt(numObjects),
   objW   |-> parseFloat(objectWidth),
   space  |-> OrZero(parseFloat(desiredSpacing))]

\* Variant: the previous text and layout result are not cleared first, so
\* they survive a failed validation.
calculatePositionsNoClear ==
  LET p == Parsed
      out == Compute(p.wallW, p.numObj, p.objW, p.space)
  IN  /\ request' = p
      /\ error' = out.error
      /\ results' = IF out.error = null THEN out.results ELSE results
      /\ visualData' = IF out.error = null THEN out.visualData ELSE visualData
      /\ Remount(visualData' # NoVisualData)
      /\ UNCHANGED <<inputs, isExporting>>

\* onClick of "Calcola Posizioni".  The three clearing setters and the
\* setters of the taken branch are batched into one update of the state.
calculatePositions ==
  LET p == Parsed
      out == Compute(p.wallW, p.numObj, p.objW, p.space)
  IN  /\ request' = p
      /\ error' = out.error
      /\ results' = out.results
      /\ visualData' = out.visualData
      /\ Remount(out.visualData # NoVisualData)
      /\ UNCHANGED <<inputs, isExporting>>

Next ==
  \/ setWallWidth
  \/ setNumObjects
  \/ setObjectWidth
  \/ setDesiredSpacing
  \/ calculatePositions

Spec == Init /\ [][Next]_vars

\* The calculation alone, started from every content of the four fields.
InitLayout ==
  /\ wallWidth \in WallStrings
  /\ numObjects \in CountStrings
  /\ objectWidth \in ObjStrings
  /\ desiredSpacing \in SpaceStrings
  /\ results = NoResults
  /\ visualData = NoVisualData
  /\ error = null
  /\ request = NoRequest
  /\ isExporting = FALSE
  /\ ViewMounted(BuildTouch)

NextLayout == calculatePositions

SpecLayout == InitLayout /\ [][NextLayout]_vars

\* ------------------------------------------------------------------------
\* The Visualization component: view transform and gestures
\* ------------------------------------------------------------------------
\* Number of events of the component (resize notifications, resets, wheel,
\* mouse and touch events) followed in a behaviour.
MaxEvents == 4
\* Pointer positions are (3k, 4k), so that the distance of any two of them
\* has a rational square root; MaxPoint is the largest k.
MaxPoint == 2

Point(px, py) == [x |-> px, y |-> py]
Points == {Point(Whole(3 * k), Whole(4 * k)) : k \in {1, MaxPoint}}

\* e.touches with one contact, or with two of which the first rests at
\* (0, 0) and the second is on it or at one of the pointer positions, or
\* with three: (0, 0) and two pointer positions.
TouchLists ==
  {<<a>> : a \in Points}
    \cup {<<Origin, b>> : b \in {Origin} \cup Points}
    \cup {<<Origin, pair[1], pair[2]>> :
            pair \in {q \in Points \X Points : RLt(q[1].x, q[2].x)}}

\* e.touches.length after a touch has ended.
RemainingCounts == {Len(touches) - 1 : touches \in TouchLists}

\* e.deltaY of the wheel events.
WheelDeltas == {-1000, 500}

\* contentRect.width of the resize notifications.
ResizeWidths == {Zero, Whole(600)}

\* e.currentTarget.getBoundingClientRect() of the svg.
SvgRect == [left |-> Whole(1), top |-> Whole(2)]

\* Math.max
RMax(a, b) == IF RLt(a, b) THEN b ELSE a

\* Math.sqrt on the squares it is applied to.
Sqrt(q) ==
  Norm(CHOOSE r \in 0..q[1] : r * r = q[1], CHOOSE r \in 1..q[2] : r * r = q[2])

\* Math.sqrt(dx * dx + dy * dy) of two touches.
TouchDistance(a, b) ==
  LET dx == RSub(a.x, b.x)
      dy == RSub(a.y, b.y)
  IN  Sqrt(RAdd(RMul(dx, dx), RMul(dy, dy)))

\* The svg and its handlers exist once a layout result is shown and the
\* container has a width.
Mounted == visualData # NoVisualData
SvgRendered == Mounted /\ RLt(Zero, containerWidth)

\* 0.001
WheelFactor == <<1, 1000>>

\* Variant: the distance from the anchor is multiplied by the new scale, not
\* by the ratio of the new scale to the old one.
ZoomAboutNoRatio(prev, newScale, ax, ay) ==
  [scale |-> newScale,
   translateX |-> RSub(ax, RMul(RSub(ax, prev.translateX), newScale)),
   translateY |-> RSub(ay, RMul(RSub(ay, prev.translateY), newScale))]

\* Zoom of prev to newScale that keeps the screen point (ax, ay) fixed.
ZoomAbout(prev, newScale, ax, ay) ==
  [scale |-> newScale,
   translateX |->
     RSub(ax, RMul(RSub(ax, prev.translateX), RDiv(newScale, prev.scale))),
   translateY |->
     RSub(ay, RMul(RSub(ay, prev.translateY), RDiv(newScale, prev.scale)))]

\* Variant: the new scale is not held at the minimum of 1.
WheelScaleUnclamped(prev, deltaY) ==
  RAdd(prev.scale, RMul(Whole(-deltaY), WheelFactor))

\* Variant: scaleAmount = deltaY * 0.001, the wheel zooming the other way.
WheelScaleInverted(prev, deltaY) ==
  RMax(Whole(1), RAdd(prev.scale, RMul(Whole(deltaY), WheelFactor)))

\* Math.max(1, prev.scale + scaleAmount) with scaleAmount = -deltaY * 0.001
WheelScale(prev, deltaY) ==
  RMax(Whole(1), RAdd(prev.scale, RMul(Whole(-deltaY), WheelFactor)))

\* The updater passed to setTransform by handleWheel.
WheelTransform(prev, deltaY, clientX, clientY) ==
  ZoomAbout(prev, WheelScale(prev, deltaY),
            RSub(clientX, SvgRect.left), RSub(clientY, SvgRect.top))

\* Variant: the distance from the gesture's start point is added to the
\* current translation, so it is counted again with every move.
PanFromStartCompounding(current, start, startPoint, p) ==
  [current EXCEPT
     !.translateX = RAdd(current.translateX, RSub(p.x, startPoint.x)),
     !.translateY = RAdd(current.translateY, RSub(p.y, startPoint.y))]

\* Pan of src/Visualization.tsx: the transform of the last render with the
\* translation of the gesture start moved by the distance from its point.
PanFromStart(current, start, startPoint, p) ==
  [current EXCEPT
     !.translateX = RAdd(start.translateX, RSub(p.x, startPoint.x)),
     !.translateY = RAdd(start.translateY, RSub(p.y, startPoint.y))]

\* Pan of src/unnamed/part_001: the previous transform moved by the distance
\* from the last pointer position.
PanByDelta(prev, lastPoint, p) ==
  [prev EXCEPT
     !.translateX = RAdd(prev.translateX, RSub(p.x, lastPoint.x)),
     !.translateY = RAdd(prev.translateY, RSub(p.y, lastPoint.y))]

\* Math.max(1, startTransformRef.current.scale * scaleMultiplier)
PinchScale(start, initialDistance, touches) ==
  RMax(Whole(1),
       RMul(start.scale,
            RDiv(TouchDistance(touches[1], touches[2]), initialDistance)))

\* Variant: the pinch is computed from the transform on screen, so every
\* move multiplies the zoom of the moves before it.
PinchTransformLive(start, initialDistance, touches) ==
  ZoomAbout(transform, PinchScale(transform, initialDistance, touches),
            RSub(RDiv(RAdd(touches[1].x, touches[2].x), Whole(2)), SvgRect.left),
            RSub(RDiv(RAdd(touches[1].y, touches[2].y), Whole(2)), SvgRect.top))

\* The two-touch branch of handleTouchMove.
PinchTransform(start, initialDistance, touches) ==
  ZoomAbout(start, PinchScale(start, initialDistance, touches),
            RSub(RDiv(RAdd(touches[1].x, touches[2].x), Whole(2)), SvgRect.left),
            RSub(RDiv(RAdd(touches[1].y, touches[2].y), Whole(2)), SvgRect.top))

\* The gesture as the user sees it.  A press starts a pan, a second touch
\* starts a pinch; a pan is pure while nothing but moves of its pointer
\* followed the press.
Pressed(p) ==
  [kind |-> "pan", point |-> p, at |-> transform, last |-> p, moves |-> 0,
   pure |-> TRUE, fromPan |-> FALSE, distance |-> Zero]

PinchStarted(touches) ==
  [kind |-> "pinch", point |-> Origin, at |-> transform,
   last |-> Origin, moves |-> 0, pure |-> TRUE, fromPan |-> isPanning,
   distance |-> TouchDistance(touches[1], touches[2])]

PointerMoved(p) ==
  IF gesture.kind = "pan" THEN [gesture EXCEPT !.last = p, !.moves = @ + 1]
  ELSE IF gesture.kind = "released" THEN [gesture EXCEPT !.moves = @ + 1]
  ELSE gesture

TwoTouchesMoved ==
  IF gesture.kind = "pinch" THEN [gesture EXCEPT !.moves = @ + 1]
  ELSE IF gesture.kind = "pan" THEN [gesture EXCEPT !.pure = FALSE]
  ELSE gesture

Released(kinds) ==
  IF gesture.kind \in kinds
  THEN [gesture EXCEPT !.kind = "released", !.moves = 0]
  ELSE gesture

Disturbed ==
  IF gesture.kind = "pan" THEN [gesture EXCEPT !.pure = FALSE] ELSE gesture

\* An event of the mounted component is handled and counted.
ViewEvent(kind) ==
  /\ Mounted
  /\ events < MaxEvents
  /\ events' = events + 1
  /\ lastEvent' = kind
  /\ UNCHANGED <<appVars, build>>

\* A pointer event of the svg.
PointerEvent(kind) ==
  /\ SvgRendered
  /\ ViewEvent(kind)
  /\ UNCHANGED containerWidth

\* onClick of "Reset View".
resetView ==
  /\ ViewEvent("reset")
  /\ transform' = IdentityTransform
  /\ gesture' = Disturbed
  /\ UNCHANGED <<containerWidth, isPanning, startPanPoint, startTransform,
                 initialPinchDistance, contacts>>

\* Variant: a resize notification records the width and keeps the view.
resizeKeepsView(width) ==
  /\ ViewEvent("resize")
  /\ containerWidth' = IF RLt(Zero, width) THEN width ELSE containerWidth
  /\ gesture' = Disturbed
  /\ UNCHANGED <<transform, isPanning, startPanPoint, startTransform,
                 initialPinchDistance, contacts>>

\* The ResizeObserver callback with contentRect.width = width.
resize(width) ==
  /\ ViewEvent("resize")
  /\ IF RLt(Zero, width)
     THEN containerWidth' = width /\ transform' = IdentityTransform
     ELSE UNCHANGED <<containerWidth, transform>>
  /\ gesture' = Disturbed
  /\ UNCHANGED <<isPanning, startPanPoint, startTransform,
                 initialPinchDistance, contacts>>

handleWheel(deltaY, clientX, clientY) ==
  /\ PointerEvent("wheel")
  /\ transform' = WheelTransform(transform, deltaY, clientX, clientY)
  /\ gesture' = Disturbed
  /\ UNCHANGED <<isPanning, startPanPoint, startTransform,
                 initialPinchDistance, contacts>>

handleMouseDown(p) ==
  /\ PointerEvent("mousedown")
  /\ isPanning' = TRUE
  /\ startPanPoint' = p
  /\ startTransform' = IF build = BuildTouch THEN transform ELSE startTransform
  /\ gesture' = Pressed(p)
  /\ UNCHANGED <<transform, initialPinchDistance, contacts>>

handleMouseMove(p) ==
  /\ PointerEvent("mousemove")
  /\ IF ~isPanning
     THEN UNCHANGED <<transform, startPanPoint>>
     ELSE IF build = BuildTouch
          THEN /\ transform' =
                    PanFromStart(transform, startTransform, startPanPoint, p)
               /\ UNCHANGED startPanPoint
          ELSE /\ transform' = PanByDelta(transform, startPanPoint, p)
               /\ startPanPoint' = p
  /\ gesture' = PointerMoved(p)
  /\ UNCHANGED <<isPanning, startTransform, initialPinchDistance, contacts>>

\* Variant: releasing the button does not end the pan.
handleMouseUpKeepsPanning ==
  /\ PointerEvent("mouseup")
  /\ gesture' = Released({"pan"})
  /\ UNCHANGED <<transform, isPanning, startPanPoint, startTransform,
                 initialPinchDistance, contacts>>

handleMouseUpOrLeave ==
  /\ PointerEvent("mouseup")
  /\ isPanning' = FALSE
  /\ gesture' = Released({"pan"})
  /\ UNCHANGED <<transform, startPanPoint, startTransform,
                 initialPinchDistance, contacts>>

\* Variant: a second contact leaves the panning flag as it is.
handleTouchStartKeepsPanning(touches) ==
  /\ build = BuildTouch
  /\ PointerEvent("touchstart")
  /\ Len(touches) > contacts
  /\ contacts' = Len(touches)
  /\ IF Len(touches) = 1
     THEN /\ isPanning' = TRUE
          /\ startPanPoint' = touches[1]
          /\ startTransform' = transform
          /\ gesture' = Pressed(touches[1])
          /\ UNCHANGED initialPinchDistance
     ELSE /\ initialPinchDistance' = TouchDistance(touches[1], touches[2])
          /\ startTransform' = transform
          /\ gesture' = PinchStarted(touches)
          /\ UNCHANGED <<isPanning, startPanPoint>>
  /\ UNCHANGED transform

handleTouchStart(touches) ==
  /\ build = BuildTouch
  /\ PointerEvent("touchstart")
  /\ Len(touches) > contacts
  /\ contacts' = Len(touches)
  /\ IF Len(touches) = 1
     THEN /\ isPanning' = TRUE
          /\ startPanPoint' = touches[1]
          /\ startTransform' = transform
          /\ gesture' = Pressed(touches[1])
          /\ UNCHANGED initialPinchDistance
     ELSE IF Len(touches) = 2
     THEN /\ isPanning' = FALSE
          /\ initialPinchDistance' = TouchDistance(touches[1], touches[2])
          /\ startTransform' = transform
          /\ gesture' = PinchStarted(touches)
          /\ UNCHANGED startPanPoint
     ELSE UNCHANGED <<isPanning, startPanPoint, startTransform,
                      initialPinchDistance, gesture>>
  /\ UNCHANGED transform

handleTouchMove(touches) ==
  /\ build = BuildTouch
  /\ PointerEvent("touchmove")
  /\ Len(touches) = contacts
  /\ IF Len(touches) = 1 /\ isPanning
     THEN transform' =
            PanFromStart(transform, startTransform, startPanPoint, touches[1])
     ELSE IF Len(touches) = 2 /\ RLt(Zero, initialPinchDistance)
     THEN transform' =
            PinchTransform(startTransform, initialPinchDistance, touches)
     ELSE UNCHANGED transform
  /\ gesture' = IF Len(touches) = 1 THEN PointerMoved(touches[1])
                 ELSE IF Len(touches) = 2 THEN TwoTouchesMoved
                 ELSE Disturbed
  /\ UNCHANGED <<isPanning, startPanPoint, startTransform,
                 initialPinchDistance, contacts>>

\* onTouchEnd and onTouchCancel with e.touches.length = remaining, the
\* touches still on the svg, which the handler does not read.
handleTouchEnd(remaining) ==
  /\ build = BuildTouch
  /\ PointerEvent("touchend")
  /\ remaining < contacts
  /\ contacts' = remaining
  /\ isPanning' = FALSE
  /\ initialPinchDistance' = Zero
  /\ gesture' = Released({"pan", "pinch"})
  /\ UNCHANGED <<transform, startPanPoint, startTransform>>

\* The mounted Visualization after the first notification of its
\* ResizeObserver, which follows observe() and reports the container's width.
ViewMeasured(b) ==
  /\ build = b
  /\ containerWidth = Whole(300)
  /\ transform = IdentityTransform
  /\ isPanning = FALSE
  /\ startPanPoint = Origin
  /\ startTransform = IdentityTransform
  /\ initialPinchDistance = Zero
  /\ contacts = 0
  /\ events = 0
  /\ lastEvent = NoEvent
  /\ gesture = NoGesture

\* The page after "Calcola Posizioni" on the initial field contents, with
\* the Visualization of either source mounted and measured.
InitView ==
  /\ wallWidth = InitialWallWidth
  /\ numObjects = InitialNumObjects
  /\ objectWidth = InitialObjectWidth
  /\ desiredSpacing = EmptyString
  /\ request = [called |-> TRUE,
                shown  |-> [error |-> FALSE, results |-> FALSE,
                            visualData |-> FALSE],
                wallW  |-> parseFloat(InitialWallWidth),
                numObj |-> parseInt(InitialNumObjects),
                objW   |-> parseFloat(InitialObjectWidth),
                space  |-> OrZero(parseFloat(EmptyString))]
  /\ error = Compute(request.wallW, request.numObj, request.objW,
                     request.space).error
  /\ results = Compute(request.wallW, request.numObj, request.objW,
                       request.space).results
  /\ visualData = Compute(request.wallW, request.numObj, request.objW,
                          request.space).visualData
  /\ isExporting = FALSE
  /\ \E b \in {BuildTouch, BuildMouse} : ViewMeasured(b)

NextView ==
  \/ resetView
  \/ \E width \in ResizeWidths : resize(width)
  \/ \E deltaY \in WheelDeltas, p \in Points : handleWheel(deltaY, p.x, p.y)
  \/ \E p \in Points : handleMouseDown(p)
  \/ \E p \in Points : handleMouseMove(p)
  \/ handleMouseUpOrLeave
  \/ \E touches \in TouchLists : handleTouchStart(touches)
  \/ \E touches \in TouchLists : handleTouchMove(touches)
  \/ \E remaining \in RemainingCounts : handleTouchEnd(remaining)

SpecView == InitView /\ [][NextView]_vars

\* ------------------------------------------------------------------------
\* The PDF export of src/unnamed/part_000
\* ------------------------------------------------------------------------
\* document.getElementById finds 'visualization-container' while a layout
\* result is shown and 'results' while a text result is.
ElementsFound == visualData # NoVisualData /\ results # NoResults

\* onClick of "Esporta PDF" up to the await of html2canvas.  The button is
\* rendered with the text result and is disabled while an export runs.
handleExportPDF ==
  /\ results # NoResults
  /\ ~isExporting
  /\ IF ElementsFound
     THEN isExporting' = TRUE /\ error' = null
     ELSE error' = ErrExportNotFound /\ UNCHANGED isExporting
  /\ UNCHANGED <<inputs, results, visualData, request, viewVars>>

\* Variant: a failed export also drops the text result.
exportFailedClearsResults ==
  /\ isExporting
  /\ error' = ErrExportFailed
  /\ isExporting' = FALSE
  /\ results' = NoResults
  /\ UNCHANGED <<inputs, visualData, request, viewVars>>

\* html2canvas or jsPDF throws: the catch and the finally block.
exportFailed ==
  /\ isExporting
  /\ error' = ErrExportFailed
  /\ isExporting' = FALSE
  /\ UNCHANGED <<inputs, results, visualData, request, viewVars>>

\* doc.save returns: the finally block alone.
exportSaved ==
  /\ isExporting
  /\ isExporting' = FALSE
  /\ UNCHANGED <<inputs, results, visualData, error, request, viewVars>>

\* The page with its export button: the number of objects is edited, the
\* positions are calculated again, the view is resized and zoomed, and
\* exports start, fail and finish in between.
NextExport ==
  \/ setNumObjects
  \/ calculatePositions
  \/ \E width \in ResizeWidths : resize(width)
  \/ \E deltaY \in WheelDeltas : handleWheel(deltaY, Zero, Zero)
  \/ handleExportPDF
  \/ exportFailed
  \/ exportSaved

SpecExport == InitView /\ [][NextExport]_vars

\* ------------------------------------------------------------------------
\* The gap-size labels under the wall (both sources render them alike)
\* ------------------------------------------------------------------------
\* Pixels per centimetre of the fitted drawing.
scaleFactor ==
  IF RLt(Zero, containerWidth)
  THEN RDiv(containerWidth, visualData.wallWidth)
  ELSE Zero

LabelThreshold == 25

\* Variant: the threshold is not divided by the interactive scale.
showLabelUnscaled(startX, endX) ==
  RLt(Whole(LabelThreshold), RSub(endX, startX))

\* DimensionLabel: "showLabel = width > 25 / transform.scale".
showLabel(startX, endX) ==
  RLt(RDiv(Whole(LabelThreshold), transform.scale), RSub(endX, startX))

\* The single <text> of a uniform layout: rendered with the svg, no test.
UniformLabel == SvgRendered /\ visualData.mode = "uniform"

\* The DimensionLabel elements of a desired-spacing layout: left side gap,
\* first inner gap (two objects or more, positive spacing), right side gap.
DimensionLabels ==
  IF SvgRendered /\ visualData.mode = "desired" /\ Len(visualData.objects) > 0
  THEN LET objects == visualData.objects
           last == objects[Len(objects)]
       IN  {[gap    |-> "left",
             startX |-> Zero,
             endX   |-> RMul(objects[1].start, scaleFactor)],
            [gap    |-> "right",
             startX |-> RMul(RAdd(last.start, last.width), scaleFactor),
             endX   |-> RMul(visualData.wallWidth, scaleFactor)]}
           \cup
           (IF Len(objects) > 1 /\ RLt(Zero, visualData.innerGap)
            THEN {[gap    |-> "inner",
                   startX |-> RMul(RAdd(objects[1].start, objects[1].width),
                                   scaleFactor),
                   endX   |-> RMul(objects[2].start, scaleFactor)]}
            ELSE {})
  ELSE {}

\* Field contents that give narrow gaps: walls of 3 and 4, one or two
\* objects of 1 or 1.5, no spacing or a spacing of 0.5.
LabelWalls  == {Literal(6), Literal(8)}
LabelCounts == {Literal(2), Literal(4)}
LabelObjs   == {Literal(2), Literal(3)}
LabelSpaces == {EmptyString, Literal(1)}

\* The page after "Calcola Posizioni" on such field contents, with the
\* Visualization of either source mounted and measured.
InitLabels ==
  /\ wallWidth \in LabelWalls
  /\ numObjects \in LabelCounts
  /\ objectWidth \in LabelObjs
  /\ desiredSpacing \in LabelSpaces
  /\ request = [called |-> TRUE,
                shown  |-> [error |-> FALSE, results |-> FALSE,
                            visualData |-> FALSE],
                wallW  |-> parseFloat(wallWidth),
                numObj |-> parseInt(numObjects),
                objW   |-> parseFloat(objectWidth),
                space  |-> OrZero(parseFloat(desiredSpacing))]
  /\ error = Compute(request.wallW, request.numObj, request.objW,
                     request.space).error
  /\ results = Compute(request.wallW, request.numObj, request.objW,
                       request.space).results
  /\ visualData = Compute(request.wallW, request.numObj, request.objW,
                          request.space).visualData
  /\ isExporting = FALSE
  /\ \E b \in {BuildTouch, BuildMouse} : ViewMeasured(b)

NextLabels ==
  \/ resetView
  \/ \E width \in ResizeWidths : resize(width)
  \/ \E deltaY \in WheelDeltas : handleWheel(deltaY, Zero, Zero)

SpecLabels == InitLabels /\ [][NextLabels]_vars

\* ------------------------------------------------------------------------
\* Vocabulary of the properties: the latest request and the gaps measured
\* on the stored layout result
\* ------------------------------------------------------------------------
Called == request.called
HasLayout == visualData # NoVisualData
HasText == results # NoResults

ObjEnd(o) == RAdd(o.start, o.width)
LeftGap == visualData.objects[1].start
RightGap ==
  RSub(request.wallW, ObjEnd(visualData.objects[Len(visualData.objects)]))
InnerGapAt(i) ==
  RSub(visualData.objects[i + 1].start, ObjEnd(visualData.objects[i]))
InnerIndices == 1..(Len(visualData.objects) - 1)

RECURSIVE SumInnerGaps(_)
SumInnerGaps(i) ==
  IF i < 1 THEN Zero ELSE RAdd(SumInnerGaps(i - 1), InnerGapAt(i))

\* The seven checks in the documented order, stated on the request.
FailsCheck(k, r) ==
  CASE k = 1 -> isNaN(r.wallW) \/ isNaN(r.numObj) \/ isNaN(r.objW)
    [] k = 2 -> RLe(r.wallW, Zero)
    [] k = 3 -> RLe(r.objW, Zero)
    [] k = 4 -> RLt(r.numObj, Whole(1))
    [] k = 5 -> RLt(r.space, Zero)
    [] k = 6 -> RLt(r.wallW, RMul(r.numObj, r.objW))
    [] k = 7 -> /\ RLt(Zero, r.space)
                /\ RLt(Whole(1), r.numObj)
                /\ RLt(r.wallW,
                       RAdd(RMul(r.numObj, r.objW),
                            RMul(RSub(r.numObj, Whole(1)), r.space)))

ErrorOfCheck ==
  <<ErrInvalidInput, ErrNonPositiveWall, ErrNonPositiveObject,
    ErrTooFewObjects, ErrNegativeSpacing, ErrObjectsExceedWall,
    ErrSpacingExceedsWall>>

FailingChecks(r) == {k \in 1..7 : FailsCheck(k, r)}

FirstFailing(r) ==
  CHOOSE k \in FailingChecks(r) : \A j \in FailingChecks(r) : k <= j

ValidRequest == Called /\ FailingChecks(request) = {}

\* C1: the error reported for a request is the one of the first failing
\* check in the order InvalidInput, NonPositiveWall, NonPositiveObject,
\* TooFewObjects, NegativeSpacing, ObjectsExceedWall, SpacingExceedsWall,
\* and a request failing no check yields a layout result and no error.
C1_FirstFailingCheckWins ==
  Called =>
    IF FailingChecks(request) = {}
    THEN error = null /\ HasLayout /\ HasText
    ELSE error = ErrorOfCheck[FirstFailing(request)]

C1_Witness ==
  /\ Called
  /\ FailsCheck(2, request)
  /\ FailsCheck(4, request)
  /\ error = ErrNonPositiveWall

\* C2: for every valid request, left gap + inner gaps + right gap (measured
\* on the returned positions) + objectCount * objectWidth = wallLength.
C2_GapsAndWidthsFillWall ==
  ValidRequest =>
    /\ HasLayout
    /\ RAdd(RAdd(RAdd(LeftGap, SumInnerGaps(Len(visualData.objects) - 1)),
                 RightGap),
            RMul(request.numObj, request.objW)) = request.wallW

C2_Witness ==
  /\ ValidRequest
  /\ HasLayout
  /\ Len(visualData.objects) >= 3
  /\ RLt(Zero, LeftGap)

\* C3: in every layout result the first object starts at or after 0, the
\* last one ends at or before wallLength, and consecutive objects do not
\* overlap.
C3_InsideWallNoOverlap ==
  (Called /\ HasLayout) =>
    /\ RLe(Zero, LeftGap)
    /\ RLe(Zero, RightGap)
    /\ \A i \in InnerIndices : RLe(Zero, InnerGapAt(i))

C3_Witness ==
  /\ Called
  /\ HasLayout
  /\ Len(visualData.objects) >= 2
  /\ visualData.mode = "desired"
  /\ LeftGap = Zero

\* C4: in a Uniform-mode result all objectCount + 1 gaps equal
\* gapSize = (wallLength - objectCount * objectWidth) / (objectCount + 1).
C4_UniformGapsEqual ==
  (Called /\ HasLayout /\ visualData.mode = "uniform") =>
    LET g == RDiv(RSub(request.wallW, RMul(request.numObj, request.objW)),
                  RAdd(request.numObj, Whole(1)))
    IN  /\ Len(visualData.objects) = request.numObj[1]
        /\ visualData.gapSize = g
        /\ LeftGap = g
        /\ RightGap = g
        /\ \A i \in InnerIndices : InnerGapAt(i) = g

C4_Witness ==
  /\ Called
  /\ HasLayout
  /\ visualData.mode = "uniform"
  /\ Len(visualData.objects) >= 3
  /\ ~IsInteger(visualData.gapSize)

\* C5: for a valid request with objectCount > 1 and desiredSpacing > 0 the
\* two wall gaps equal sideGap = (wallLength - (objectCount * objectWidth +
\* (objectCount - 1) * desiredSpacing)) / 2 and every inner gap equals
\* desiredSpacing.
C5_DesiredSideAndInnerGaps ==
  (ValidRequest /\ RLt(Whole(1), request.numObj) /\ RLt(Zero, request.space))
  =>
    LET side == RDiv(RSub(request.wallW,
                          RAdd(RMul(request.numObj, request.objW),
                               RMul(RSub(request.numObj, Whole(1)),
                                    request.space))),
                     Whole(2))
    IN  /\ HasLayout
        /\ Len(visualData.objects) = request.numObj[1]
        /\ LeftGap = side
        /\ RightGap = side
        /\ \A i \in InnerIndices : InnerGapAt(i) = request.space

C5_Witness ==
  /\ ValidRequest
  /\ request.numObj = Whole(3)
  /\ RLt(Zero, request.space)
  /\ HasLayout
  /\ RLt(Zero, LeftGap)
  /\ LeftGap # request.space

\* C6: for every valid request with objectCount = 1, whatever the desired
\* spacing, the object starts at (wallLength - objectWidth) / 2 and the two
\* wall gaps are equal.
C6_SingleObjectCentered ==
  (ValidRequest /\ request.numObj = Whole(1)) =>
    /\ HasLayout
    /\ Len(visualData.objects) = 1
    /\ visualData.objects[1].start =
         RDiv(RSub(request.wallW, request.objW), Whole(2))
    /\ LeftGap = RightGap

C6_Witness ==
  /\ ValidRequest
  /\ request.numObj = Whole(1)
  /\ RLt(request.wallW, request.space)
  /\ HasLayout
  /\ RLt(Zero, LeftGap)

AllGapsZero ==
  /\ LeftGap = Zero
  /\ RightGap = Zero
  /\ \A i \in InnerIndices : InnerGapAt(i) = Zero

ExactFit ==
  /\ Called
  /\ \A k \in 1..5 : ~FailsCheck(k, request)
  /\ RMul(request.numObj, request.objW) = request.wallW

\* C7 as stated: whenever objectCount * objectWidth = wallLength and the
\* earlier checks pass, the result is a non-error layout with every gap 0.
C7_ExactFitAlwaysLayout ==
  ExactFit => (error = null /\ HasLayout /\ AllGapsZero)

\* C7 amended: whenever objectCount * objectWidth = wallLength, the earlier
\* checks pass, and desiredSpacing = 0 or objectCount = 1, the result is a
\* non-error layout with every gap 0; with desiredSpacing > 0 and
\* objectCount > 1 the request is rejected with SpacingExceedsWall.
C7_ExactFitWithoutSpacing ==
  ExactFit =>
    IF RLt(Zero, request.space) /\ RLt(Whole(1), request.numObj)
    THEN error = ErrSpacingExceedsWall /\ ~HasLayout
    ELSE error = null /\ HasLayout /\ AllGapsZero

C7_Witness ==
  /\ ExactFit
  /\ RLt(Whole(1), request.numObj)
  /\ request.space = Zero
  /\ error = null
  /\ HasLayout
  /\ AllGapsZero

\* C8: SpacingExceedsWall is returned exactly when the six earlier checks
\* pass, desiredSpacing > 0, objectCount > 1 and objectCount * objectWidth +
\* (objectCount - 1) * desiredSpacing > wallLength; never with
\* objectCount = 1 or desiredSpacing = 0.
C8_SpacingExceedsWallExactly ==
  Called =>
    /\ (error = ErrSpacingExceedsWall) <=>
         (/\ \A k \in 1..6 : ~FailsCheck(k, request)
          /\ FailsCheck(7, request))
    /\ (request.numObj = Whole(1) \/ request.space = Zero)
         => error # ErrSpacingExceedsWall

C8_Witness ==
  /\ Called
  /\ error = ErrSpacingExceedsWall
  /\ request.numObj = Whole(2)

C8_WitnessSingle ==
  /\ Called
  /\ request.numObj = Whole(1)
  /\ RLt(request.wallW, request.space)
  /\ error = null

DesiredShape ==
  /\ visualData.mode = "desired"
  /\ DOMAIN visualData =
       {"wallWidth", "objects", "mode", "sideGap", "innerGap"}

UniformShape ==
  /\ visualData.mode = "uniform"
  /\ DOMAIN visualData = {"wallWidth", "objects", "mode", "gapSize"}

\* C9 as stated: a successful result has mode Desired (sideGap and innerGap,
\* no gapSize) when desiredSpacing > 0 and objectCount > 1, and mode Uniform
\* (gapSize, no sideGap/innerGap) for every other valid request.
C9_ModeBySpacingAndCount ==
  (Called /\ error = null) =>
    /\ HasLayout
    /\ IF RLt(Zero, request.space) /\ RLt(Whole(1), request.numObj)
       THEN DesiredShape
       ELSE UniformShape

\* C9 amended: a successful result carries exactly one of the two modes:
\* Desired (sideGap and innerGap, no gapSize) when desiredSpacing > 0 and
\* objectCount > 1 or when objectCount = 1, and Uniform (gapSize, no
\* sideGap/innerGap) for every other valid request, i.e. objectCount > 1
\* with desiredSpacing = 0.
C9_ModeSingleIsDesired ==
  (Called /\ error = null) =>
    /\ HasLayout
    /\ IF \/ RLt(Zero, request.space) /\ RLt(Whole(1), request.numObj)
          \/ request.numObj = Whole(1)
       THEN DesiredShape
       ELSE UniformShape

C9_Witness ==
  /\ Called
  /\ error = null
  /\ request.numObj = Whole(1)
  /\ request.space = Zero
  /\ HasLayout
  /\ DesiredShape

\* What a calculation leaves behind.
LeftByRequest ==
  /\ Called
  /\ error # null => (~HasText /\ ~HasLayout)
  /\ error = null =>
       /\ HasText
       /\ HasLayout
       /\ visualData.wallWidth = request.wallW
       /\ Len(visualData.objects) = request.numObj[1]
       /\ Len(results.objects) = request.numObj[1]
       /\ \A i \in 1..Len(visualData.objects) :
            /\ visualData.objects[i].width = request.objW
            /\ results.objects[i].inizio =
                 formatNumber(visualData.objects[i].start)
            /\ results.objects[i].fine =
                 formatNumber(ObjEnd(visualData.objects[i]))

\* C10: every calculation request leaves either the error alone (text and
\* layout result absent, also when the previous request had succeeded) or
\* no error and the text and layout result of that very request.
C10_NoStaleOutcome == [][calculatePositions => LeftByRequest']_vars

C10_Witness ==
  /\ Called
  /\ request.shown.results
  /\ request.shown.visualData
  /\ error # null
  /\ ~HasText
  /\ ~HasLayout

C10_WitnessSuccessAfterError ==
  /\ Called
  /\ request.shown.error
  /\ error = null
  /\ HasText
  /\ HasLayout
  /\ visualData.wallWidth = request.wallW

\* ------------------------------------------------------------------------
\* Properties of the view transform
\* ------------------------------------------------------------------------
One == Whole(1)

\* The svg point (client position less the svg's corner) of a pointer.
SvgPoint(p) == Point(RSub(p.x, SvgRect.left), RSub(p.y, SvgRect.top))

\* C11: in every state reached by wheel, mouse pan, touch pan, pinch, reset
\* and resize events the scale of the transform is at least 1.
C11_ScaleAtLeastOne == RLe(One, transform.scale)

\* A wheel event zoomed out of a zoomed and shifted view and was held at 1.
C11_Witness ==
  /\ lastEvent = "wheel"
  /\ transform.scale = One
  /\ transform.translateX # Zero

\* The model coordinate that transform t shows at the svg point c.
ModelPoint(t, c) ==
  Point(RDiv(RSub(c.x, t.translateX), t.scale),
        RDiv(RSub(c.y, t.translateY), t.scale))

\* The wheel event at client position p kept the model coordinate under the
\* cursor, and the translation is the one the zoom rule gives.
WheelAnchored(p) ==
  LET c == SvgPoint(p)
      ratio == RDiv(transform'.scale, transform.scale)
  IN  /\ ModelPoint(transform, c) = ModelPoint(transform', c)
      /\ transform'.translateX =
           RSub(c.x, RMul(RSub(c.x, transform.translateX), ratio))
      /\ transform'.translateY =
           RSub(c.y, RMul(RSub(c.y, transform.translateY), ratio))

\* C12: every wheel event, from any transform and cursor position, leaves
\* the model coordinate under the cursor where it was, also when the new
\* scale is held at 1.
C12_WheelKeepsAnchor ==
  [][\A deltaY \in WheelDeltas, p \in Points :
       handleWheel(deltaY, p.x, p.y) => WheelAnchored(p)]_vars

\* A wheel event during a pan zoomed out of a zoomed and shifted view and
\* was held at 1.
C12_Witness ==
  /\ lastEvent = "wheel"
  /\ gesture.kind = "pan"
  /\ transform.scale = One
  /\ transform.translateY # Zero

\* Two wheel events in a row zoomed in about a cursor away from the corner.
C12_WitnessZoomed ==
  /\ lastEvent = "wheel"
  /\ transform.scale = Whole(3)
  /\ transform.translateX # Zero

\* max(1, scale - deltaY / 1000), stated without the model's operators.
ScaleAfterWheel(scale, deltaY) ==
  LET sum == Norm(1000 * scale[1] - deltaY * scale[2], 1000 * scale[2])
  IN  IF sum[1] < sum[2] THEN One ELSE sum

\* C13: each wheel event sets the scale to max(1, scale - deltaY * 0.001)
\* of the transform current at that event; with deltaY < 0 the scale
\* strictly increases, with deltaY > 0 it does not increase.
C13_WheelScaleRule ==
  [][\A deltaY \in WheelDeltas, p \in Points :
       handleWheel(deltaY, p.x, p.y) =>
         /\ transform'.scale = ScaleAfterWheel(transform.scale, deltaY)
         /\ deltaY < 0 => RLt(transform.scale, transform'.scale)
         /\ deltaY > 0 => RLe(transform'.scale, transform.scale)]_vars

\* A wheel event zoomed out of a view that an earlier one had zoomed in,
\* and stayed above 1.
C13_Witness ==
  /\ lastEvent = "wheel"
  /\ transform.scale = <<3, 2>>

\* Wheel events accumulated to more than one of them gives.
C13_WitnessAccumulated ==
  /\ lastEvent = "wheel"
  /\ transform.scale = <<5, 2>>

\* C14 as stated: after every resize notification and after every explicit
\* reset the transform is exactly {1, 0, 0}.
C14_EveryResizeResets ==
  [][(resetView \/ \E width \in ResizeWidths : resize(width)) =>
       transform' = IdentityTransform]_vars

\* C14, amended: after every resize notification that reports a positive
\* width and after every explicit reset the transform is exactly {1, 0, 0},
\* whatever it was and whatever gesture is in progress; a notification that
\* reports no width leaves the transform as it was.
C14_PositiveResizeResets ==
  [][/\ resetView => transform' = IdentityTransform
     /\ \A width \in ResizeWidths :
          resize(width) =>
            transform' = IF RLt(Zero, width) THEN IdentityTransform
                          ELSE transform]_vars

\* A resize notification arrived during a pan that had started on a zoomed
\* view, and the view is reset.
C14_Witness ==
  /\ lastEvent = "resize"
  /\ gesture.kind = "pan"
  /\ gesture.at.scale # One
  /\ transform = IdentityTransform

\* A reset during a pan that had moved the view.
C14_WitnessReset ==
  /\ lastEvent = "reset"
  /\ gesture.kind = "pan"
  /\ gesture.moves >= 1
  /\ gesture.last # gesture.point
  /\ transform = IdentityTransform

\* A resize notification without a width arrived on a zoomed view.
C14_WitnessNoWidth ==
  /\ lastEvent = "resize"
  /\ transform.scale # One

\* A pan is in progress and only moves of its pointer followed the press.
PurePan == gesture.kind = "pan" /\ gesture.pure

\* C15: during a pan (mouse or single touch), after a press at p0 followed
\* by any number of moves ending at p and no other event, the scale is the
\* one at the press and the translation is the one at the press plus
\* p - p0 on both axes.
C15_PanFollowsPointer ==
  PurePan =>
    /\ transform.scale = gesture.at.scale
    /\ transform.translateX =
         RAdd(gesture.at.translateX, RSub(gesture.last.x, gesture.point.x))
    /\ transform.translateY =
         RAdd(gesture.at.translateY, RSub(gesture.last.y, gesture.point.y))

\* Two moves of a pan that started on a zoomed and shifted view
\* (src/Visualization.tsx).
C15_Witness ==
  /\ build = BuildTouch
  /\ PurePan
  /\ gesture.moves >= 2
  /\ gesture.last # gesture.point
  /\ gesture.at.scale # One
  /\ gesture.at.translateX # Zero

\* The same in src/unnamed/part_001.
C15_WitnessMouse ==
  /\ build = BuildMouse
  /\ PurePan
  /\ gesture.moves >= 2
  /\ gesture.last # gesture.point
  /\ gesture.at.scale # One
  /\ gesture.at.translateX # Zero

\* A pan by one finger.
C15_WitnessTouch ==
  /\ lastEvent = "touchmove"
  /\ PurePan
  /\ gesture.moves >= 2
  /\ gesture.last # gesture.point

\* What an export step must leave alone: the form, the text result, the
\* layout result and the whole view with its transform.
ExportFrame == UNCHANGED <<inputs, results, visualData, viewVars>>

\* C16: a failed export changes nothing in the core state.  The step that
\* starts an export and the step in which it fails leave the text result,
\* the layout result and the view transform as they were; after the
\* failure the exporting flag is false and only the error message is set,
\* and an export whose elements are not found never raises the flag.
C16_ExportFailureFrame ==
  [][/\ exportFailed =>
          /\ ExportFrame
          /\ ~isExporting'
          /\ error' = ErrExportFailed
     /\ handleExportPDF =>
          /\ ExportFrame
          /\ ~ElementsFound => (~isExporting' /\ error' = ErrExportNotFound)]_vars

\* An export of a zoomed view has failed: text, layout and zoom are there.
C16_Witness ==
  /\ error = ErrExportFailed
  /\ ~isExporting
  /\ HasText
  /\ HasLayout
  /\ transform.scale # One

\* An export failed after a calculation had meanwhile been refused.
C16_WitnessRefusedMeanwhile ==
  /\ error = ErrExportFailed
  /\ ~isExporting
  /\ ~HasText
  /\ ~HasLayout

\* ------------------------------------------------------------------------
\* Monotonicity of the uniform gap
\* ------------------------------------------------------------------------
\* The outcome of the latest request with the object width replaced.
WithObjectWidth(objW) ==
  Compute(request.wallW, request.numObj, objW, request.space)

\* The widths of the object field that are larger than the requested one
\* and give a uniform layout on the same wall with the same count.
WiderUniformWidths ==
  {w \in {parseFloat(str) : str \in ObjStrings} :
     /\ RLt(request.objW, w)
     /\ WithObjectWidth(w).error = null
     /\ WithObjectWidth(w).visualData.mode = "uniform"}

UniformShown == Called /\ HasLayout /\ visualData.mode = "uniform"

\* C17: in uniform mode, of two valid requests that differ only in the
\* object width the one with the larger width has the strictly smaller
\* gapSize.
C17_GapShrinksAsObjectsWiden ==
  UniformShown =>
    \A w \in WiderUniformWidths :
      RLt(WithObjectWidth(w).visualData.gapSize, visualData.gapSize)

\* A uniform layout is shown and a wider object still fits the wall.
C17_Witness ==
  /\ UniformShown
  /\ WiderUniformWidths # {}
  /\ RLt(Zero, visualData.gapSize)

\* ------------------------------------------------------------------------
\* The gestures
\* ------------------------------------------------------------------------
\* A move of one pointer: the mouse or a single touch.
OnePointerMove ==
  \/ \E p \in Points : handleMouseMove(p)
  \/ \E p \in Points : handleTouchMove(<<p>>)

\* C18: a pan ends on release: after a mouse-up or mouse-leave, or a
\* touch-end, the controller is not panning; while it is not panning every
\* move of the pointer leaves the transform unchanged; and it is panning
\* again only after a new press.
C18_PanEndsOnRelease ==
  [][/\ (\/ handleMouseUpOrLeave
         \/ \E remaining \in RemainingCounts : handleTouchEnd(remaining)) =>
          ~isPanning'
     /\ (~isPanning /\ OnePointerMove) =>
          (transform' = transform /\ ~isPanning')
     /\ (~isPanning /\ isPanning') =>
          lastEvent' \in {"mousedown", "touchstart"}]_vars

\* The mouse moved after the release of a pan that had shifted the view,
\* and the view stayed where the pan left it.
C18_Witness ==
  /\ lastEvent = "mousemove"
  /\ gesture.kind = "released"
  /\ gesture.moves >= 1
  /\ ~isPanning
  /\ transform.translateX # Zero

\* The same after a touch-end.
C18_WitnessTouch ==
  /\ lastEvent = "touchmove"
  /\ gesture.kind = "released"
  /\ gesture.moves >= 1
  /\ ~isPanning
  /\ initialPinchDistance = Zero
  /\ transform.translateX # Zero

TwoTouches == {touches \in TouchLists : Len(touches) = 2}

\* The pinch rule: the transform that a pinch started on snapshot with the
\* fingers d0 apart shows when the fingers are at a and b.
PinchRule(snapshot, d0, a, b) ==
  LET raw == RDiv(RMul(snapshot.scale, TouchDistance(a, b)), d0)
      newScale == IF RLt(raw, One) THEN One ELSE raw
      mid == SvgPoint(Point(RDiv(RAdd(a.x, b.x), Whole(2)),
                            RDiv(RAdd(a.y, b.y), Whole(2))))
      ratio == RDiv(newScale, snapshot.scale)
  IN  [scale |-> newScale,
       translateX |->
         RSub(mid.x, RMul(RSub(mid.x, snapshot.translateX), ratio)),
       translateY |->
         RSub(mid.y, RMul(RSub(mid.y, snapshot.translateY), ratio))]

Pinching == gesture.kind = "pinch"

\* C19: when a second touch appears, the controller idle or panning, the
\* panning flag becomes false and the distance of the two fingers and the
\* transform of that instant are captured; the two-touch moves that follow
\* leave the flag false and change the transform by the pinch rule or not
\* at all.
C19_SecondTouchStartsPinch ==
  [][/\ lastEvent' = "touchstart" =>
          \A touches \in TwoTouches :
            handleTouchStart(touches) =>
              /\ ~isPanning'
              /\ initialPinchDistance' =
                   TouchDistance(touches[1], touches[2])
              /\ startTransform' = transform
              /\ transform' = transform
     /\ (Pinching /\ lastEvent' = "touchmove") =>
          \A touches \in TwoTouches :
            handleTouchMove(touches) =>
              /\ ~isPanning'
              /\ transform' \in
                   {transform,
                    PinchRule(gesture.at, gesture.distance,
                              touches[1], touches[2])}]_vars

\* A second finger came down during a pan and the two fingers, moved
\* apart, zoomed the view.
C19_Witness ==
  /\ lastEvent = "touchmove"
  /\ Pinching
  /\ gesture.fromPan
  /\ gesture.moves >= 1
  /\ ~isPanning
  /\ transform.scale # gesture.at.scale

\* The same with two fingers coming down on the idle controller.
C19_WitnessIdle ==
  /\ lastEvent = "touchmove"
  /\ Pinching
  /\ ~gesture.fromPan
  /\ gesture.moves >= 1
  /\ ~isPanning
  /\ transform.scale # gesture.at.scale

\* A pinch is in progress whose fingers were apart when it started.
PinchingApart == Pinching /\ RLt(Zero, gesture.distance)

\* C20: every two-touch move during a pinch sets the transform to what the
\* pinch rule gives for the snapshot taken at pinch start and the current
\* positions of the two touches, whatever the transform on screen is and
\* whatever moves came before.
C20_PinchFromSnapshot ==
  [][(PinchingApart /\ lastEvent' = "touchmove") =>
       \A touches \in TwoTouches :
         handleTouchMove(touches) =>
           transform' = PinchRule(gesture.at, gesture.distance,
                                  touches[1], touches[2])]_vars

\* The second move of a pinch that started on a zoomed view.
C20_Witness ==
  /\ lastEvent = "touchmove"
  /\ PinchingApart
  /\ gesture.moves >= 2
  /\ gesture.at.scale # One
  /\ transform.scale # gesture.at.scale

\* A pinch whose fingers came together was held at the scale 1.
C20_WitnessHeld ==
  /\ lastEvent = "touchmove"
  /\ PinchingApart
  /\ gesture.moves >= 1
  /\ gesture.at.scale # One
  /\ transform.scale = One

\* The controller holds a pinch: the distance and the snapshot taken when
\* the second touch appeared.
PinchHeld == RLt(Zero, initialPinchDistance)

\* C21: a pinch ends when fewer than two touches remain: after a touch-end
\* that leaves fewer than two touches the controller is idle (not panning,
\* no initial pinch distance) and the moves of a remaining finger leave the
\* transform unchanged; after a touch-end that leaves two touches the pinch
\* is still held.
C21_PinchEndsBelowTwoTouches ==
  [][/\ \A remaining \in RemainingCounts :
          handleTouchEnd(remaining) =>
            /\ remaining < 2 =>
                 (~isPanning' /\ initialPinchDistance' = Zero)
            /\ remaining >= 2 =>
                 /\ initialPinchDistance' = initialPinchDistance
                 /\ startTransform' = startTransform
     /\ (~isPanning /\ ~PinchHeld /\ contacts = 1) =>
          \A p \in Points : handleTouchMove(<<p>>) => transform' = transform]_vars

\* The third of three fingers was lifted during a pinch: two touches rest
\* on the svg and the pinch they had started is gone.
C21_WitnessPinchLost ==
  /\ lastEvent = "touchend"
  /\ contacts = 2
  /\ gesture.kind = "released"
  /\ RLt(Zero, gesture.distance)
  /\ ~PinchHeld

\* ------------------------------------------------------------------------
\* C22: suppression of a gap-size label
\* ------------------------------------------------------------------------
fitScale == RDiv(containerWidth, visualData.wallWidth)

ModelGapWidth(l) ==
  CASE l.gap = "left"  -> LeftGap
    [] l.gap = "right" -> RightGap
    [] l.gap = "inner" -> InnerGapAt(1)

OnScreenWidth(l) == RMul(ModelGapWidth(l), fitScale)

Suppressed(l) == ~showLabel(l.startX, l.endX)

\* C22 as stated: a gap-size label is suppressed exactly when the gap's
\* on-screen width (model gap width times fit scale) divided by the
\* interactive scale is below 25, and shown otherwise.
C22_SuppressedWhenWidthOverScaleBelow25 ==
  \A l \in DimensionLabels :
    Suppressed(l) <=>
      RLt(RDiv(OnScreenWidth(l), transform.scale), Whole(25))

\* C22: a gap-size label of a desired-spacing layout (left gap, right gap,
\* and the first inner gap when there are two objects or more and a positive
\* spacing) is suppressed exactly when the gap's on-screen width (model gap
\* width times fit scale) is at most 25 divided by the interactive scale,
\* and shown otherwise; a uniform layout has a single gap-size label, which
\* is always shown.
C22_SuppressedWhenWidthAtMost25OverScale ==
  /\ \A l \in DimensionLabels :
       Suppressed(l) <=>
         RLe(OnScreenWidth(l), RDiv(Whole(25), transform.scale))
  /\ SvgRendered /\ visualData.mode = "desired" =>
       /\ {"left", "right"} \subseteq {l.gap : l \in DimensionLabels}
       /\ ("inner" \in {l.gap : l \in DimensionLabels}) <=>
            (Len(visualData.objects) > 1 /\ RLt(Zero, request.space))
       /\ ~UniformLabel
  /\ SvgRendered /\ visualData.mode = "uniform" =>
       UniformLabel /\ DimensionLabels = {}

\* Zooming in has revealed a label that the fitted view suppresses.
C22_Witness ==
  /\ lastEvent = "wheel"
  /\ RLt(One, transform.scale)
  /\ \E l \in DimensionLabels :
       /\ ~Suppressed(l)
       /\ RLe(OnScreenWidth(l), Whole(25))

\* A label whose width is exactly 25 / scale is suppressed.
C22_WitnessAtThreshold ==
  /\ events > 0
  /\ \E l \in DimensionLabels :
       /\ Suppressed(l)
       /\ RMul(OnScreenWidth(l), transform.scale) = Whole(25)

\* The label of a uniform layout stays while the view is zoomed.
C22_WitnessUniform ==
  /\ lastEvent = "wheel"
  /\ RLt(One, transform.scale)
  /\ UniformLabel

\* ------------------------------------------------------------------------
\* C23: a wheel zoom during a pan
\* ------------------------------------------------------------------------
\* A pan is in progress and the latest event was a wheel event.
WheelDuringPan ==
  gesture.kind = "pan" /\ isPanning /\ lastEvent = "wheel"

MovedBy(t, from, to) ==
  [scale      |-> t.scale,
   translateX |-> RAdd(t.translateX, RSub(to.x, from.x)),
   translateY |-> RAdd(t.translateY, RSub(to.y, from.y))]

\* C23: the pointer move that follows a wheel zoom arrived during a pan
\* keeps the scale of the wheel and sets the translation to the one of the
\* wheel plus the pointer's displacement since the last pointer event before
\* the wheel.
C23_WheelSurvivesPan ==
  [][(WheelDuringPan /\ lastEvent' = "mousemove") =>
       \A p \in Points :
         handleMouseMove(p) =>
           transform' = MovedBy(transform, gesture.last, p)]_vars

\* Press, move, wheel, move in src/Visualization.tsx: the zoom of the wheel
\* is on screen with the translation of the press plus the pointer's whole
\* displacement, the translation change of the wheel being gone.
C23_WitnessWheelShiftLost ==
  /\ build = BuildTouch
  /\ lastEvent = "mousemove"
  /\ gesture.kind = "pan" /\ ~gesture.pure /\ gesture.moves = 2
  /\ events = 4
  /\ gesture.at = IdentityTransform
  /\ transform = MovedBy([gesture.at EXCEPT !.scale = Whole(2)],
                         gesture.point, gesture.last)

\* ------------------------------------------------------------------------
\* C24: a reset or a resize during a gesture
\* ------------------------------------------------------------------------
PanHeld == gesture.kind = "pan" /\ isPanning

\* A gesture is in progress and the latest event reset the view.
ResetDuringGesture ==
  /\ lastEvent \in {"reset", "resize"}
  /\ transform = IdentityTransform
  /\ PanHeld \/ (PinchingApart /\ PinchHeld)

\* The transforms of a pan move to p computed from the reset transform: the
\* pointer's displacement since the press, or since its last position.
PanFromReset(p) ==
  {MovedBy(IdentityTransform, gesture.point, p),
   MovedBy(IdentityTransform, gesture.last, p)}

\* C24: the move that follows a reset or a resize arrived during a pan or a
\* pinch computes from the reset transform {1,0,0}: the translation and the
\* scale captured at the start of the gesture do not come back.
C24_ResetSurvivesGesture ==
  [][(ResetDuringGesture /\ lastEvent' \in {"mousemove", "touchmove"}) =>
       /\ PanHeld =>
            \A p \in Points :
              (handleMouseMove(p) \/ handleTouchMove(<<p>>)) =>
                transform' \in PanFromReset(p)
       /\ Pinching =>
            \A touches \in TwoTouches :
              handleTouchMove(touches) =>
                transform' = PinchRule(IdentityTransform, gesture.distance,
                                       touches[1], touches[2])]_vars

\* Wheel, press, reset or resize, move in src/Visualization.tsx: the
\* translation of the zoomed view of the press is back, moved by the
\* pointer's displacement, at the scale 1.
C24_WitnessTranslationBack ==
  /\ build = BuildTouch
  /\ lastEvent = "mousemove"
  /\ gesture.kind = "pan" /\ ~gesture.pure /\ gesture.moves = 1
  /\ events = 4
  /\ gesture.at.scale # One
  /\ gesture.at.translateX # Zero
  /\ transform = MovedBy([gesture.at EXCEPT !.scale = One],
                         gesture.point, gesture.last)

====
